---- MODULE Spec2Model ----
(***************************************************************************)
(* A model of the OpenThread Channel Manager                               *)
(* (src/src/core/utils/channel_manager.cpp).                               *)
(*                                                                         *)
(* The Channel Manager is single-threaded: every public operation, the     *)
(* timer handler and the dataset-updater callback run to completion,       *)
(* serially.  Each of them is one action below.  The body of a handler is  *)
(* an operator that maps the manager's world `w` (its fields, its timer,   *)
(* the dataset updater's state and the log of collaborator calls made by   *)
(* the running handler) and the environment `e` of the call (the clock,    *)
(* the MAC's PAN channel, the random numbers drawn, the updater's answer,  *)
(* the channel monitor's figures) to the world after the handler.          *)
(*                                                                         *)
(* channel_manager.hpp and the collaborators (Timer, DatasetUpdater,       *)
(* ChannelMonitor, Mac, Mle, Notifier, Random) are not among the sources;  *)
(* the constants and the collaborators are modelled from spec.md (6.2,     *)
(* 6.3, 5).  The values of the constants are implementation-defined        *)
(* there; they are chosen small here, on a 500 ms grid, so that the clock  *)
(* takes few values.                                                       *)
(***************************************************************************)
EXTENDS Integers, Sequences, FiniteSets, TLC

\* ------------------------------------------------------------ constants

kStateIdle == "Idle"
kStateChangeRequested == "ChangeRequested"
kStateChangeInProgress == "ChangeInProgress"

States == {kStateIdle, kStateChangeRequested, kStateChangeInProgress}

\* Minimum delay (seconds) of a channel change (spec 6.3: MIN_DELAY, 120).
kMinimumDelay == 120

\* Upper bound (ms, exclusive) of the random part of the start jitter.
kRequestStartJitterInterval == 1000

\* Retry gap (ms) after the updater answered Busy or NoBufs.
kPendingDatasetTxRetryInterval == 1500

\* Default auto-select interval (seconds).
kDefaultAutoSelectInterval == 2

\* Timer::kMaxDelay (ms): the longest delay a timer can be started with.
kMaxDelay == 2999

\* Channel monitor: samples needed before the occupancies are trusted.
kMinChannelMonitorSampleCount == 500

\* Occupancy by which the best favored channel must be worse than the best
\* supported one for the favored channels to be skipped.
kThresholdToSkipFavored == 512

\* Occupancy improvement needed to change channel.
kThresholdToChangeChannel == 256

\* CCA failure rate from which a channel change is attempted.
kCcaFailureRateThreshold == 256

\* Occupancy FindBestChannels reports for an empty mask (no channel seen).
kMaxOccupancy == 65535

\* Time::SecToMsec and Time::MsecToSec.
SecToMsec(aSeconds) == aSeconds * 1000

MsecToSec(aMsec) == aMsec \div 1000

\* The channels the radio supports (Mac::GetSupportedChannelMask).
MacSupportedChannelMask == {11, 12, 13}

\* ------------------------------------------------------------ bounds

\* The clock advances in steps of this size (ms), never past a running
\* timer's fire time, and at most MaxTicks times.
TickSteps == {500}

MaxTicks == 4

MaxTime == MaxTicks * 500

\* Channels requested by the host, and the PAN channels the MAC may be on.
Channels == {11, 12, 13}

\* Values passed to SetDelay (the first is below kMinimumDelay).
DelayInputs == {kMinimumDelay - 1, kMinimumDelay, kMinimumDelay + 1}

\* Values passed to SetAutoChannelSelectionInterval (0 and the last are
\* rejected).
IntervalInputs == 0 .. (MsecToSec(kMaxDelay) + 1)

\* Masks passed to SetSupportedChannels / SetFavoredChannels (14 is not a
\* channel of the radio).
SupportedMaskInputs == {{11, 12, 13, 14}}

FavoredMaskInputs == {{12, 14}}

\* Random numbers drawn for the start jitter.
JitterInputs == {499, 999}

\* Answers of DatasetUpdater::RequestUpdate.
kErrorNone == "None"
kErrorBusy == "Busy"
kErrorNoBufs == "NoBufs"
kErrorInvalidState == "InvalidState"
kErrorInvalidArgs == "InvalidArgs"
kErrorNotFound == "NotFound"
kErrorAlready == "Already"
kErrorFailed == "Failed"

UpdaterResults == {kErrorNone, kErrorBusy, kErrorNoBufs, kErrorInvalidState, kErrorFailed}

\* Results delivered by the updater's completion callback.
CallbackResults == {kErrorNone, kErrorAlready, kErrorFailed}

\* ------------------------------------------------------------ state

VARIABLES
    mState,                 \* kStateIdle, kStateChangeRequested, kStateChangeInProgress
    mChannel,               \* the channel being changed to
    mDelay,                 \* delay (seconds) written into the pending dataset
    mAutoSelectInterval,    \* seconds
    mAutoSelectEnabled,
    mSupportedChannelMask,
    mFavoredChannelMask,
    mTimer,                 \* [running, fireTime (ms), startTime (history, ms)]
    updater,                \* the dataset updater, as seen from here
    now,                    \* the clock (ms)
    requested,              \* history: the channel of the last request that was scheduled
    accepted                \* history: the last delay SetDelay accepted

vars == <<mState, mChannel, mDelay, mAutoSelectInterval, mAutoSelectEnabled,
          mSupportedChannelMask, mFavoredChannelMask, mTimer, updater, now,
          requested, accepted>>

\* One call of a collaborator: its name, up to two numbers, a result.
Call(aName, aFirst, aSecond, aResult) ==
    [call |-> aName, a |-> aFirst, b |-> aSecond, r |-> aResult]

Logged(w, aCall) == [w EXCEPT !.calls = Append(@, aCall)]

\* The world the handlers work on, read from the variables. `calls` is the
\* log of the collaborator calls the running handler has made, in order;
\* `error` is the result of the call that returned last.
World ==
    [mState |-> mState, mChannel |-> mChannel, mDelay |-> mDelay,
     mAutoSelectInterval |-> mAutoSelectInterval,
     mAutoSelectEnabled |-> mAutoSelectEnabled,
     mSupportedChannelMask |-> mSupportedChannelMask,
     mFavoredChannelMask |-> mFavoredChannelMask,
     mTimer |-> mTimer, updater |-> updater,
     error |-> kErrorNone, calls |-> <<>>]

\* ------------------------------------------------------------ collaborators

\* Timer::Start(aDelay): fires aDelay ms from now.
TimerStart(w, e, aDelay) ==
    Logged([w EXCEPT !.mTimer = [running |-> TRUE, fireTime |-> e.now + aDelay,
                                 startTime |-> e.now]],
           Call("Timer.Start", aDelay, 0, kErrorNone))

\* Timer::StartAt(aStartTime, aDelay): fires aDelay ms from aStartTime.
TimerStartAt(w, aStartTime, aDelay) ==
    Logged([w EXCEPT !.mTimer = [running |-> TRUE, fireTime |-> aStartTime + aDelay,
                                 startTime |-> aStartTime]],
           Call("Timer.StartAt", aStartTime, aDelay, kErrorNone))

\* A timer that is not running; its fire time is never read.
StoppedTimer == [running |-> FALSE, fireTime |-> 0, startTime |-> 0]

\* Timer::Stop().
TimerStop(w) ==
    Logged([w EXCEPT !.mTimer = StoppedTimer],
           Call("Timer.Stop", 0, 0, kErrorNone))

\* Random::NonCrypto::GetUint32InRange(aMin, aMax): a value in [aMin, aMax),
\* from the random number aRandom.
GetUint32InRange(aMin, aMax, aRandom) == aMin + (aRandom % (aMax - aMin))

\* Notifier::Signal(kEventChannelManagerNewChannelChanged).
NotifierSignal(w) == Logged(w, Call("Notifier.Signal", 0, 0, kErrorNone))

\* DatasetUpdater::RequestUpdate(dataset, ...). The updater answers Busy
\* while an update it accepted is outstanding, and else as the environment
\* has it. An accepted update is outstanding until its callback or until it
\* is cancelled.
UpdaterAnswer(w, e) == IF w.updater.pending THEN kErrorBusy ELSE e.result

DatasetUpdaterRequestUpdate(w, e, aChannel, aDelayMs) ==
    LET r == UpdaterAnswer(w, e) IN
    Logged([w EXCEPT !.updater = [pending |-> @.pending \/ (r = kErrorNone),
                                  cancelled |-> @.cancelled,
                                  lastCall |-> "RequestUpdate",
                                  lastAccepted |-> (r = kErrorNone)],
                     !.error = r],
           Call("Updater.RequestUpdate", aChannel, aDelayMs, r))

\* DatasetUpdater::CancelUpdate(): best-effort; the callback of the
\* cancelled update may still arrive (spec.md, section 5).
DatasetUpdaterCancelUpdate(w) ==
    Logged([w EXCEPT !.updater = [pending |-> FALSE,
                                  cancelled |-> @.cancelled \/ @.pending,
                                  lastCall |-> "CancelUpdate",
                                  lastAccepted |-> FALSE]],
           Call("Updater.CancelUpdate", 0, 0, kErrorNone))

\* ChannelMonitor::FindBestChannels(aMask, aOccupancy): the channels of
\* aMask with the least occupancy, and that occupancy.
MinOccupancy(aMask, aOcc) ==
    IF aMask = {} THEN kMaxOccupancy
    ELSE CHOOSE o \in {aOcc[c] : c \in aMask} : \A c \in aMask : o <= aOcc[c]

FindBestChannels(aMask, aOcc) ==
    {c \in aMask : aOcc[c] = MinOccupancy(aMask, aOcc)}

\* Mac::ChannelMask::ChooseRandomChannel(): the member of aMask at a random
\* index, counting from the lowest channel.
RECURSIVE NthChannel(_, _)
NthChannel(aMask, aIndex) ==
    LET lowest == CHOOSE c \in aMask : \A d \in aMask : c <= d IN
    IF aIndex = 0 THEN lowest ELSE NthChannel(aMask \ {lowest}, aIndex - 1)

ChooseRandomChannel(aMask, aRandom) == NthChannel(aMask, aRandom % Cardinality(aMask))

\* ------------------------------------------------------------ handlers

\* StartAutoSelectTimer without the check of the state.
StartAutoSelectTimer_AnyState(w, e) ==
    IF w.mAutoSelectEnabled
    THEN TimerStart(w, e, SecToMsec(w.mAutoSelectInterval))
    ELSE TimerStop(w)

\* ChannelManager::StartAutoSelectTimer
StartAutoSelectTimer(w, e) ==
    IF w.mState # kStateIdle THEN w
    ELSE IF w.mAutoSelectEnabled
         THEN TimerStart(w, e, SecToMsec(w.mAutoSelectInterval))
         ELSE TimerStop(w)

\* RequestChannelChange without the check against the PAN channel.
RequestChannelChange_NoPanCheck(w, e, aChannel) ==
    LET w0 == Logged(w, Call("RequestChannelChange", aChannel, 0, kErrorNone)) IN
    IF w.mState = kStateChangeInProgress /\ w.mChannel = aChannel THEN w0
    ELSE LET w1 == IF w.mState = kStateChangeInProgress
                   THEN DatasetUpdaterCancelUpdate(w0) ELSE w0
             w2 == [w1 EXCEPT !.mState = kStateChangeRequested,
                              !.mChannel = aChannel]
             w3 == TimerStart(w2, e,
                       1 + GetUint32InRange(0, kRequestStartJitterInterval, e.jitter))
         IN  NotifierSignal(w3)

\* RequestChannelChange without the check against the channel of the change
\* in progress.
RequestChannelChange_AlwaysCancel(w, e, aChannel) ==
    LET w0 == Logged(w, Call("RequestChannelChange", aChannel, 0, kErrorNone)) IN
    IF aChannel = e.pan THEN w0
    ELSE LET w1 == IF w.mState = kStateChangeInProgress
                   THEN DatasetUpdaterCancelUpdate(w0) ELSE w0
             w2 == [w1 EXCEPT !.mState = kStateChangeRequested,
                              !.mChannel = aChannel]
             w3 == TimerStart(w2, e,
                       1 + GetUint32InRange(0, kRequestStartJitterInterval, e.jitter))
         IN  NotifierSignal(w3)

\* RequestChannelChange signalling the notifier also when the request is for
\* the channel of the change in progress.
RequestChannelChange_SignalsOnRepeat(w, e, aChannel) ==
    LET w0 == Logged(w, Call("RequestChannelChange", aChannel, 0, kErrorNone)) IN
    IF aChannel = e.pan THEN w0
    ELSE IF w.mState = kStateChangeInProgress /\ w.mChannel = aChannel
    THEN NotifierSignal(w0)
    ELSE LET w1 == IF w.mState = kStateChangeInProgress
                   THEN DatasetUpdaterCancelUpdate(w0) ELSE w0
             w2 == [w1 EXCEPT !.mState = kStateChangeRequested,
                              !.mChannel = aChannel]
             w3 == TimerStart(w2, e,
                       1 + GetUint32InRange(0, kRequestStartJitterInterval, e.jitter))
         IN  NotifierSignal(w3)

\* ChannelManager::RequestChannelChange
RequestChannelChange(w, e, aChannel) ==
    LET w0 == Logged(w, Call("RequestChannelChange", aChannel, 0, kErrorNone)) IN
    IF aChannel = e.pan THEN w0
    ELSE IF w.mState = kStateChangeInProgress /\ w.mChannel = aChannel THEN w0
    ELSE LET w1 == IF w.mState = kStateChangeInProgress
                   THEN DatasetUpdaterCancelUpdate(w0) ELSE w0
             w2 == [w1 EXCEPT !.mState = kStateChangeRequested,
                              !.mChannel = aChannel]
             w3 == TimerStart(w2, e,
                       1 + GetUint32InRange(0, kRequestStartJitterInterval, e.jitter))
         IN  NotifierSignal(w3)

\* SetDelay storing the value before it validates it.
SetDelay_StoresFirst(w, aDelay) ==
    IF aDelay >= kMinimumDelay
    THEN [w EXCEPT !.mDelay = aDelay, !.error = kErrorNone]
    ELSE [w EXCEPT !.mDelay = aDelay, !.error = kErrorInvalidArgs]

\* ChannelManager::SetDelay
SetDelay(w, aDelay) ==
    IF aDelay >= kMinimumDelay
    THEN [w EXCEPT !.mDelay = aDelay, !.error = kErrorNone]
    ELSE [w EXCEPT !.error = kErrorInvalidArgs]

\* StartDatasetUpdate with the default delay in place of the stored one.
StartDatasetUpdate_DefaultDelay(w, e) ==
    LET w1 == DatasetUpdaterRequestUpdate(w, e, w.mChannel, SecToMsec(kMinimumDelay)) IN
    CASE w1.error = kErrorNone ->
            [w1 EXCEPT !.mState = kStateChangeInProgress]
      [] w1.error \in {kErrorBusy, kErrorNoBufs} ->
            TimerStart(w1, e, kPendingDatasetTxRetryInterval)
      [] OTHER ->
            StartAutoSelectTimer([w1 EXCEPT !.mState = kStateIdle], e)

\* StartDatasetUpdate giving up on NoBufs instead of retrying.
StartDatasetUpdate_NoBufsGivesUp(w, e) ==
    LET w1 == DatasetUpdaterRequestUpdate(w, e, w.mChannel, SecToMsec(w.mDelay)) IN
    CASE w1.error = kErrorNone ->
            [w1 EXCEPT !.mState = kStateChangeInProgress]
      [] w1.error \in {kErrorBusy} ->
            TimerStart(w1, e, kPendingDatasetTxRetryInterval)
      [] OTHER ->
            StartAutoSelectTimer([w1 EXCEPT !.mState = kStateIdle], e)

\* StartDatasetUpdate waiting for a callback after the updater answered Busy.
StartDatasetUpdate_BusyInProgress(w, e) ==
    LET w1 == DatasetUpdaterRequestUpdate(w, e, w.mChannel, SecToMsec(w.mDelay)) IN
    CASE w1.error \in {kErrorNone, kErrorBusy} ->
            [w1 EXCEPT !.mState = kStateChangeInProgress]
      [] w1.error \in {kErrorNoBufs} ->
            TimerStart(w1, e, kPendingDatasetTxRetryInterval)
      [] OTHER ->
            StartAutoSelectTimer([w1 EXCEPT !.mState = kStateIdle], e)

\* StartDatasetUpdate going back to Idle without the call of
\* StartAutoSelectTimer.
StartDatasetUpdate_GivesUpSilently(w, e) ==
    LET w1 == DatasetUpdaterRequestUpdate(w, e, w.mChannel, SecToMsec(w.mDelay)) IN
    CASE w1.error = kErrorNone ->
            [w1 EXCEPT !.mState = kStateChangeInProgress]
      [] w1.error \in {kErrorBusy, kErrorNoBufs} ->
            TimerStart(w1, e, kPendingDatasetTxRetryInterval)
      [] OTHER ->
            [w1 EXCEPT !.mState = kStateIdle]

\* ChannelManager::StartDatasetUpdate
StartDatasetUpdate(w, e) ==
    LET w1 == DatasetUpdaterRequestUpdate(w, e, w.mChannel, SecToMsec(w.mDelay)) IN
    CASE w1.error = kErrorNone ->
            [w1 EXCEPT !.mState = kStateChangeInProgress]
      [] w1.error \in {kErrorBusy, kErrorNoBufs} ->
            TimerStart(w1, e, kPendingDatasetTxRetryInterval)
      [] OTHER ->
            StartAutoSelectTimer([w1 EXCEPT !.mState = kStateIdle], e)

\* HandleDatasetUpdateDone without the call of StartAutoSelectTimer.
HandleDatasetUpdateDone_NoTimer(w, e, aError) == [w EXCEPT !.mState = kStateIdle]

\* HandleDatasetUpdateDone going back to Idle only when the update succeeded.
HandleDatasetUpdateDone_IdleOnSuccess(w, e, aError) ==
    IF aError = kErrorNone
    THEN StartAutoSelectTimer([w EXCEPT !.mState = kStateIdle], e)
    ELSE w

\* ChannelManager::HandleDatasetUpdateDone
HandleDatasetUpdateDone(w, e, aError) ==
    StartAutoSelectTimer([w EXCEPT !.mState = kStateIdle], e)

\* FindBetterChannel taking the favored channels as they are, supported or
\* not.
FindBetterChannel_FavoredUnmasked(w, e) ==
    LET w0 == Logged(w, Call("Monitor.GetSampleCount", 0, 0, kErrorNone))
        favoredAndSupported == w.mFavoredChannelMask
        favoredBest == FindBestChannels(favoredAndSupported, e.occ)
        favoredOccupancy == MinOccupancy(favoredAndSupported, e.occ)
        supportedBest == FindBestChannels(w.mSupportedChannelMask, e.occ)
        supportedOccupancy == MinOccupancy(w.mSupportedChannelMask, e.occ)
        skipFavored ==
            \/ favoredBest = {}
            \/ /\ favoredOccupancy >= kThresholdToSkipFavored
               /\ supportedOccupancy < favoredOccupancy - kThresholdToSkipFavored
        best == IF skipFavored THEN supportedBest ELSE favoredBest
        occupancy == IF skipFavored THEN supportedOccupancy ELSE favoredOccupancy
    IN  IF e.sampleCount <= kMinChannelMonitorSampleCount
        THEN [world |-> [w0 EXCEPT !.error = kErrorInvalidState],
              newChannel |-> 0, newOccupancy |-> 0]
        ELSE IF best = {}
        THEN [world |-> [w0 EXCEPT !.error = kErrorNotFound],
              newChannel |-> 0, newOccupancy |-> 0]
        ELSE [world |-> [w0 EXCEPT !.error = kErrorNone],
              newChannel |-> ChooseRandomChannel(best, e.random),
              newOccupancy |-> occupancy]

\* FindBetterChannel skipping the favored channels already when the best
\* supported one is better by exactly kThresholdToSkipFavored.
FindBetterChannel_SkipsAtThreshold(w, e) ==
    LET w0 == Logged(w, Call("Monitor.GetSampleCount", 0, 0, kErrorNone))
        favoredAndSupported == w.mFavoredChannelMask \cap w.mSupportedChannelMask
        favoredBest == FindBestChannels(favoredAndSupported, e.occ)
        favoredOccupancy == MinOccupancy(favoredAndSupported, e.occ)
        supportedBest == FindBestChannels(w.mSupportedChannelMask, e.occ)
        supportedOccupancy == MinOccupancy(w.mSupportedChannelMask, e.occ)
        skipFavored ==
            \/ favoredBest = {}
            \/ /\ favoredOccupancy >= kThresholdToSkipFavored
               /\ supportedOccupancy <= favoredOccupancy - kThresholdToSkipFavored
        best == IF skipFavored THEN supportedBest ELSE favoredBest
        occupancy == IF skipFavored THEN supportedOccupancy ELSE favoredOccupancy
    IN  IF e.sampleCount <= kMinChannelMonitorSampleCount
        THEN [world |-> [w0 EXCEPT !.error = kErrorInvalidState],
              newChannel |-> 0, newOccupancy |-> 0]
        ELSE IF best = {}
        THEN [world |-> [w0 EXCEPT !.error = kErrorNotFound],
              newChannel |-> 0, newOccupancy |-> 0]
        ELSE [world |-> [w0 EXCEPT !.error = kErrorNone],
              newChannel |-> ChooseRandomChannel(best, e.random),
              newOccupancy |-> occupancy]

\* ChannelManager::FindBetterChannel: the world with `error` set, and on
\* success `newChannel` and `newOccupancy`.
FindBetterChannel(w, e) ==
    LET w0 == Logged(w, Call("Monitor.GetSampleCount", 0, 0, kErrorNone))
        favoredAndSupported == w.mFavoredChannelMask \cap w.mSupportedChannelMask
        favoredBest == FindBestChannels(favoredAndSupported, e.occ)
        favoredOccupancy == MinOccupancy(favoredAndSupported, e.occ)
        supportedBest == FindBestChannels(w.mSupportedChannelMask, e.occ)
        supportedOccupancy == MinOccupancy(w.mSupportedChannelMask, e.occ)
        skipFavored ==
            \/ favoredBest = {}
            \/ /\ favoredOccupancy >= kThresholdToSkipFavored
               /\ supportedOccupancy < favoredOccupancy - kThresholdToSkipFavored
        best == IF skipFavored THEN supportedBest ELSE favoredBest
        occupancy == IF skipFavored THEN supportedOccupancy ELSE favoredOccupancy
    IN  IF e.sampleCount <= kMinChannelMonitorSampleCount
        THEN [world |-> [w0 EXCEPT !.error = kErrorInvalidState],
              newChannel |-> 0, newOccupancy |-> 0]
        ELSE IF best = {}
        THEN [world |-> [w0 EXCEPT !.error = kErrorNotFound],
              newChannel |-> 0, newOccupancy |-> 0]
        ELSE [world |-> [w0 EXCEPT !.error = kErrorNone],
              newChannel |-> ChooseRandomChannel(best, e.random),
              newOccupancy |-> occupancy]

\* ChannelManager::ShouldAttemptChannelChange
ShouldAttemptChannelChange(e) == e.ccaFailureRate >= kCcaFailureRateThreshold

\* The 16-bit difference static_cast<uint16_t>(a - b).
Sub16(a, b) == (a - b + 65536) % 65536

\* RequestChannelSelect searching for a better channel before it looks at
\* the CCA failure rate.
RequestChannelSelect_SearchesFirst(w, e, aSkipQualityCheck) ==
    LET w0 == Logged(w, Call("Mle.IsDisabled", 0, 0, kErrorNone))
        found == FindBetterChannel(w0, e)
        w1 == Logged(found.world, Call("Mac.GetCcaFailureRate", 0, 0, kErrorNone))
        curOccupancy == e.occ[e.pan]
    IN  IF e.mleDisabled THEN [w0 EXCEPT !.error = kErrorInvalidState]
        ELSE IF found.world.error # kErrorNone THEN found.world
        ELSE IF ~(aSkipQualityCheck \/ ShouldAttemptChannelChange(e))
        THEN [w1 EXCEPT !.error = kErrorNone]
        ELSE IF found.newChannel = e.pan THEN found.world
        ELSE IF \/ found.newOccupancy >= curOccupancy
                \/ Sub16(curOccupancy, found.newOccupancy) < kThresholdToChangeChannel
        THEN found.world
        ELSE [RequestChannelChange(found.world, e, found.newChannel)
                 EXCEPT !.error = kErrorNone]

\* RequestChannelSelect taking the 16-bit difference of the occupancies
\* without first comparing them.
RequestChannelSelect_WrappedDifference(w, e, aSkipQualityCheck) ==
    LET w0 == Logged(w, Call("Mle.IsDisabled", 0, 0, kErrorNone))
        w1 == Logged(w0, Call("Mac.GetCcaFailureRate", 0, 0, kErrorNone))
        wq == IF aSkipQualityCheck THEN w0 ELSE w1
        found == FindBetterChannel(wq, e)
        curOccupancy == e.occ[e.pan]
    IN  IF e.mleDisabled THEN [w0 EXCEPT !.error = kErrorInvalidState]
        ELSE IF ~(aSkipQualityCheck \/ ShouldAttemptChannelChange(e))
        THEN [w1 EXCEPT !.error = kErrorNone]
        ELSE IF found.world.error # kErrorNone THEN found.world
        ELSE IF found.newChannel = e.pan THEN found.world
        ELSE IF Sub16(curOccupancy, found.newOccupancy) < kThresholdToChangeChannel
        THEN found.world
        ELSE [RequestChannelChange(found.world, e, found.newChannel)
                 EXCEPT !.error = kErrorNone]

\* ChannelManager::RequestChannelSelect
RequestChannelSelect(w, e, aSkipQualityCheck) ==
    LET w0 == Logged(w, Call("Mle.IsDisabled", 0, 0, kErrorNone))
        w1 == Logged(w0, Call("Mac.GetCcaFailureRate", 0, 0, kErrorNone))
        wq == IF aSkipQualityCheck THEN w0 ELSE w1
        found == FindBetterChannel(wq, e)
        curOccupancy == e.occ[e.pan]
    IN  IF e.mleDisabled THEN [w0 EXCEPT !.error = kErrorInvalidState]
        ELSE IF ~(aSkipQualityCheck \/ ShouldAttemptChannelChange(e))
        THEN [w1 EXCEPT !.error = kErrorNone]
        ELSE IF found.world.error # kErrorNone THEN found.world
        ELSE IF found.newChannel = e.pan THEN found.world
        ELSE IF \/ found.newOccupancy >= curOccupancy
                \/ Sub16(curOccupancy, found.newOccupancy) < kThresholdToChangeChannel
        THEN found.world
        ELSE [RequestChannelChange(found.world, e, found.newChannel)
                 EXCEPT !.error = kErrorNone]

\* ChannelManager::HandleTimer
HandleTimer(w, e) ==
    CASE w.mState = kStateIdle ->
            StartAutoSelectTimer(RequestChannelSelect(w, e, FALSE), e)
      [] w.mState = kStateChangeRequested -> StartDatasetUpdate(w, e)
      [] OTHER -> w

\* SetAutoChannelSelectionEnabled selecting with the quality check skipped.
SetAutoChannelSelectionEnabled_SkipsQualityCheck(w, e, aEnabled) ==
    IF aEnabled # w.mAutoSelectEnabled
    THEN StartAutoSelectTimer(
             RequestChannelSelect([w EXCEPT !.mAutoSelectEnabled = aEnabled], e, TRUE),
             e)
    ELSE w

\* SetAutoChannelSelectionEnabled storing the flag and nothing more.
SetAutoChannelSelectionEnabled_FlagOnly(w, e, aEnabled) ==
    IF aEnabled # w.mAutoSelectEnabled
    THEN [w EXCEPT !.mAutoSelectEnabled = aEnabled]
    ELSE w

\* ChannelManager::SetAutoChannelSelectionEnabled
SetAutoChannelSelectionEnabled(w, e, aEnabled) ==
    IF aEnabled # w.mAutoSelectEnabled
    THEN StartAutoSelectTimer(
             RequestChannelSelect([w EXCEPT !.mAutoSelectEnabled = aEnabled], e, FALSE),
             e)
    ELSE w

\* SetAutoChannelSelectionInterval restarting the timer from the present.
SetAutoChannelSelectionInterval_FromNow(w, aInterval) ==
    LET prevInterval == w.mAutoSelectInterval
        w1 == [w EXCEPT !.mAutoSelectInterval = aInterval, !.error = kErrorNone]
    IN  IF ~(aInterval # 0 /\ aInterval <= MsecToSec(kMaxDelay))
        THEN [w EXCEPT !.error = kErrorInvalidArgs]
        ELSE IF /\ w.mAutoSelectEnabled
                /\ w.mState = kStateIdle
                /\ w.mTimer.running
                /\ prevInterval # aInterval
        THEN TimerStartAt(w1, now, SecToMsec(aInterval))
        ELSE w1

\* ChannelManager::SetAutoChannelSelectionInterval
SetAutoChannelSelectionInterval(w, aInterval) ==
    LET prevInterval == w.mAutoSelectInterval
        w1 == [w EXCEPT !.mAutoSelectInterval = aInterval, !.error = kErrorNone]
    IN  IF ~(aInterval # 0 /\ aInterval <= MsecToSec(kMaxDelay))
        THEN [w EXCEPT !.error = kErrorInvalidArgs]
        ELSE IF /\ w.mAutoSelectEnabled
                /\ w.mState = kStateIdle
                /\ w.mTimer.running
                /\ prevInterval # aInterval
        THEN TimerStartAt(w1, w.mTimer.fireTime - SecToMsec(prevInterval),
                          SecToMsec(aInterval))
        ELSE w1

\* ChannelManager::SetSupportedChannels
SetSupportedChannels(w, aChannelMask) ==
    [w EXCEPT !.mSupportedChannelMask = aChannelMask \cap MacSupportedChannelMask]

\* ChannelManager::SetFavoredChannels
SetFavoredChannels(w, aChannelMask) ==
    [w EXCEPT !.mFavoredChannelMask = aChannelMask \cap MacSupportedChannelMask]

\* ------------------------------------------------------------ environment

\* Occupancy tables of the channel monitor (lower is cleaner).
OccFavoredClean == (11 :> 1024) @@ (12 :> 256) @@ (13 :> 1024)
OccUnfavoredClean == (11 :> 1024) @@ (12 :> 1024) @@ (13 :> 0)
OccFlat == (11 :> 512) @@ (12 :> 512) @@ (13 :> 512)
OccSmallGain == (11 :> 300) @@ (12 :> 256) @@ (13 :> 300)

\* What a selection reads from the mesh layer, the MAC, the channel monitor
\* and the random source.
Selection(aMleDisabled, aCca, aSamples, aOcc, aRandom) ==
    [mleDisabled |-> aMleDisabled, ccaFailureRate |-> aCca,
     sampleCount |-> aSamples, occ |-> aOcc, random |-> aRandom]

DefaultSelection ==
    Selection(FALSE, kCcaFailureRateThreshold, kMinChannelMonitorSampleCount + 1,
              OccFavoredClean, 0)

\* Selections that stop early (mesh layer disabled, CCA failure rate below
\* the threshold, too few samples) or find too little to gain.
IdleSelectInputs ==
    { [DefaultSelection EXCEPT !.mleDisabled = TRUE],
      [DefaultSelection EXCEPT !.ccaFailureRate = kCcaFailureRateThreshold - 1],
      [DefaultSelection EXCEPT !.sampleCount = kMinChannelMonitorSampleCount],
      [DefaultSelection EXCEPT !.occ = OccFlat, !.random = 1],
      [DefaultSelection EXCEPT !.occ = OccSmallGain] }

\* PAN channels the MAC reports.
PanInputs == {11, 12}

\* The environment of one handler run: the clock, the MAC's PAN channel, the
\* random number drawn for the jitter, the updater's answer, and what a
\* selection reads.
Env(aPan, aSelection, aJitter, aResult) ==
    [now |-> now, pan |-> aPan, jitter |-> aJitter, result |-> aResult,
     mleDisabled |-> aSelection.mleDisabled,
     ccaFailureRate |-> aSelection.ccaFailureRate,
     sampleCount |-> aSelection.sampleCount,
     occ |-> aSelection.occ, random |-> aSelection.random]

\* The environments of a handler that may run a selection and request a
\* change, of one that may only request a change, of one that calls the
\* updater, and of one that reads none of these.
SelectEnvs ==
    {Env(p, DefaultSelection, j, kErrorNone) : p \in PanInputs, j \in JitterInputs}
    \cup {Env(11, sel, 499, kErrorNone) : sel \in IdleSelectInputs}
    \cup {Env(11, [DefaultSelection EXCEPT !.occ = OccUnfavoredClean], 999, kErrorNone)}

RequestEnvs ==
    {Env(p, DefaultSelection, j, kErrorNone) : p \in PanInputs, j \in JitterInputs}

UpdateEnvs == {Env(11, DefaultSelection, 0, r) : r \in UpdaterResults}

PlainEnv == Env(11, DefaultSelection, 0, kErrorNone)

\* ------------------------------------------------------------ actions

\* The calls of the log that are a scheduled request: a RequestChannelChange
\* that went on to signal the notifier.
ScheduledRequests(aCalls) ==
    {i \in 1 .. Len(aCalls) :
        /\ aCalls[i].call = "RequestChannelChange"
        /\ \E k \in (i + 1) .. Len(aCalls) : aCalls[k].call = "Notifier.Signal"}

\* The handler `aName(aArg)` ran from the current state and left the world w.
Commit(w, aName, aArg) ==
    /\ mState' = w.mState
    /\ mChannel' = w.mChannel
    /\ mDelay' = w.mDelay
    /\ mAutoSelectInterval' = w.mAutoSelectInterval
    /\ mAutoSelectEnabled' = w.mAutoSelectEnabled
    /\ mSupportedChannelMask' = w.mSupportedChannelMask
    /\ mFavoredChannelMask' = w.mFavoredChannelMask
    /\ mTimer' = w.mTimer
    /\ updater' = w.updater
    /\ requested' = IF ScheduledRequests(w.calls) = {} THEN requested
                    ELSE w.calls[CHOOSE i \in ScheduledRequests(w.calls) :
                                    \A k \in ScheduledRequests(w.calls) : k <= i].a
    /\ accepted' = IF aName = "SetDelay" /\ w.error = kErrorNone THEN aArg ELSE accepted
    /\ UNCHANGED now

\* ChannelManager::ChannelManager
Init ==
    /\ mState = kStateIdle
    /\ mChannel = 0
    /\ mDelay = kMinimumDelay
    /\ mAutoSelectInterval = kDefaultAutoSelectInterval
    /\ mAutoSelectEnabled = FALSE
    /\ mSupportedChannelMask = {}
    /\ mFavoredChannelMask = {}
    /\ mTimer = StoppedTimer
    /\ updater = [pending |-> FALSE, cancelled |-> FALSE,
                  lastCall |-> "None", lastAccepted |-> FALSE]
    /\ now = 0
    /\ requested = 0
    /\ accepted = kMinimumDelay

CallRequestChannelChange ==
    \E c \in Channels, e \in RequestEnvs :
        Commit(RequestChannelChange(World, e, c), "RequestChannelChange", c)

CallSetDelay ==
    \E d \in DelayInputs : Commit(SetDelay(World, d), "SetDelay", d)

CallSetSupportedChannels ==
    \E m \in SupportedMaskInputs :
        Commit(SetSupportedChannels(World, m), "SetSupportedChannels", 0)

CallSetFavoredChannels ==
    \E m \in FavoredMaskInputs :
        Commit(SetFavoredChannels(World, m), "SetFavoredChannels", 0)

CallSetAutoChannelSelectionEnabled ==
    \E b \in BOOLEAN, e \in SelectEnvs :
        Commit(SetAutoChannelSelectionEnabled(World, e, b),
               "SetAutoChannelSelectionEnabled", IF b THEN 1 ELSE 0)

CallSetAutoChannelSelectionInterval ==
    \E x \in IntervalInputs :
        Commit(SetAutoChannelSelectionInterval(World, x),
               "SetAutoChannelSelectionInterval", x)

CallRequestChannelSelect ==
    \E skip \in BOOLEAN, e \in SelectEnvs :
        Commit(RequestChannelSelect(World, e, skip),
               "RequestChannelSelect", IF skip THEN 1 ELSE 0)

\* The world in which the timer's handler runs: the timer that fired is off
\* the scheduler.
TimerFired(w) == [w EXCEPT !.mTimer = StoppedTimer]

\* The environments a timer fire reads, by the branch HandleTimer takes.
TimerEnvs ==
    IF mState = kStateIdle THEN SelectEnvs
    ELSE IF mState = kStateChangeRequested THEN UpdateEnvs
    ELSE {PlainEnv}

\* The timer is due: it is taken off the scheduler and its handler runs.
TimerFires ==
    /\ mTimer.running
    /\ mTimer.fireTime <= now
    /\ \E e \in TimerEnvs : Commit(HandleTimer(TimerFired(World), e), "HandleTimer", 0)

\* The world in which the completion callback of the outstanding update
\* runs, and the one in which the callback of a cancelled update runs.
UpdateCompleted(w) == [w EXCEPT !.updater.pending = FALSE]

CancelledUpdateCompleted(w) == [w EXCEPT !.updater.cancelled = FALSE]

\* The updater completes the outstanding update and calls back.
UpdateDone ==
    /\ updater.pending
    /\ \E err \in CallbackResults :
        Commit(HandleDatasetUpdateDone(UpdateCompleted(World), PlainEnv, err),
               "HandleDatasetUpdateDone", 0)

\* The callback of a cancelled update arrives after all.
LateUpdateDone ==
    /\ updater.cancelled
    /\ \E err \in CallbackResults :
        Commit(HandleDatasetUpdateDone(CancelledUpdateCompleted(World), PlainEnv, err),
               "HandleDatasetUpdateDone", 1)

\* Time passes, up to the fire time of a running timer.
Tick ==
    \E d \in TickSteps :
        /\ now + d <= MaxTime
        /\ mTimer.running => now + d <= mTimer.fireTime
        /\ now' = now + d
        /\ UNCHANGED <<mState, mChannel, mDelay, mAutoSelectInterval,
                       mAutoSelectEnabled, mSupportedChannelMask,
                       mFavoredChannelMask, mTimer, updater, requested, accepted>>

Next ==
    \/ CallRequestChannelChange
    \/ CallSetDelay
    \/ CallSetSupportedChannels
    \/ CallSetFavoredChannels
    \/ CallSetAutoChannelSelectionEnabled
    \/ CallSetAutoChannelSelectionInterval
    \/ CallRequestChannelSelect
    \/ TimerFires
    \/ UpdateDone
    \/ LateUpdateDone
    \/ Tick

Spec == Init /\ [][Next]_vars

\* ------------------------------------------------------------ reading a handler's run

\* The places in the log of w of the calls named in aNames.
CallIndices(w, aNames) == {i \in 1 .. Len(w.calls) : w.calls[i].call \in aNames}

UpdaterCalls(w) == CallIndices(w, {"Updater.RequestUpdate", "Updater.CancelUpdate"})

TimerCalls(w) == CallIndices(w, {"Timer.Start", "Timer.StartAt", "Timer.Stop"})

Signals(w) == CallIndices(w, {"Notifier.Signal"})

\* The handler left the state, the target channel and the timer alone.
StateKept(w) ==
    /\ w.mState = mState
    /\ w.mChannel = mChannel
    /\ w.mTimer = mTimer

\* The handler called neither the timer, the notifier nor the updater.
NoEffect(w) ==
    /\ TimerCalls(w) = {}
    /\ Signals(w) = {}
    /\ UpdaterCalls(w) = {}
    /\ w.updater = updater

\* The delays the start jitter can give.
JitterDelays == 1 .. (1 + kRequestStartJitterInterval)

\* The timer of w was armed now, by the only timer call of the handler, with
\* a delay within aDelays.
ArmedNow(w, aDelays) ==
    /\ w.mTimer.running
    /\ w.mTimer.startTime = now
    /\ (w.mTimer.fireTime - now) \in aDelays

\* The timer of w is what StartAutoSelectTimer leaves in Idle.
AutoTimer(w) ==
    IF mAutoSelectEnabled
    THEN ArmedNow(w, {SecToMsec(mAutoSelectInterval)})
    ELSE ~w.mTimer.running

\* ------------------------------------------------------------ C1

\* C1: in every state, RequestChannelChange(c) with c the MAC's current PAN
\* channel is a no-op: the state, the target channel and the timer (running
\* flag and fire time) are unchanged, the notifier is not signalled and the
\* dataset updater is neither called nor cancelled.
C1_SameChannelIsNoOp ==
    \A c \in Channels, e \in RequestEnvs :
        e.pan = c =>
            LET w == RequestChannelChange(World, e, c) IN
            StateKept(w) /\ NoEffect(w)

\* A change towards another channel is in progress and the PAN channel is
\* requested: the request leaves the change in progress.
C1_Witness ==
    /\ mState = kStateChangeInProgress
    /\ updater.pending
    /\ \E c \in Channels, e \in RequestEnvs :
        /\ e.pan = c
        /\ c # mChannel
        /\ RequestChannelChange(World, e, c).mState = kStateChangeInProgress

\* ------------------------------------------------------------ C2

\* C2: RequestChannelChange(c) calls the updater's CancelUpdate exactly when
\* the state is ChangeInProgress, c is not the target channel and c is not
\* the PAN channel; then the state becomes ChangeRequested, the target
\* becomes c and the timer is armed with a jitter delay in
\* [1, 1 + kRequestStartJitterInterval] ms. In ChangeInProgress with c the
\* target channel, the call changes nothing.
C2_CancelOnlyOnNewTarget ==
    \A c \in Channels, e \in RequestEnvs :
        LET w == RequestChannelChange(World, e, c)
            cancels == CallIndices(w, {"Updater.CancelUpdate"})
            supersedes == /\ mState = kStateChangeInProgress
                          /\ c # mChannel
                          /\ c # e.pan
        IN  /\ (cancels # {}) <=> supersedes
            /\ supersedes =>
                  /\ Cardinality(cancels) = 1
                  /\ w.mState = kStateChangeRequested
                  /\ w.mChannel = c
                  /\ Cardinality(TimerCalls(w)) = 1
                  /\ ArmedNow(w, JitterDelays)
            /\ (mState = kStateChangeInProgress /\ c = mChannel) =>
                  StateKept(w) /\ NoEffect(w)

\* A request has just superseded a change in progress: the update was
\* cancelled and the jitter timer is armed.
C2_Witness ==
    /\ mState = kStateChangeRequested
    /\ updater.lastCall = "CancelUpdate"
    /\ updater.cancelled
    /\ mTimer.running
    /\ mTimer.startTime = now
    /\ (mTimer.fireTime - now) \in JitterDelays

\* ------------------------------------------------------------ C3

\* The RequestUpdate calls a timer fire makes from the current state when
\* the updater's answer is aResult.
UpdateIssued(aResult) ==
    LET w == HandleTimer(TimerFired(World), Env(11, DefaultSelection, 0, aResult))
    IN  [i \in 1 .. Cardinality(CallIndices(w, {"Updater.RequestUpdate"})) |->
            w.calls[CHOOSE k \in CallIndices(w, {"Updater.RequestUpdate"}) :
                Cardinality({m \in CallIndices(w, {"Updater.RequestUpdate"}) : m <= k}) = i]]

\* C3: every RequestUpdate carries the target channel and the delay (in ms)
\* stored at the moment of the call, and these are the channel of the most
\* recent request that was scheduled and the delay most recently accepted by
\* SetDelay: whenever a change is requested, the update the timer fire
\* issues (a retry after Busy or NoBufs included) is for that channel with
\* that delay.
C3_UpdateCarriesCurrentValues ==
    mState = kStateChangeRequested =>
        \A r \in UpdaterResults :
            /\ Len(UpdateIssued(r)) = 1
            /\ UpdateIssued(r)[1].a = mChannel
            /\ UpdateIssued(r)[1].b = mDelay * 1000
            /\ UpdateIssued(r)[1].a = requested
            /\ UpdateIssued(r)[1].b = accepted * 1000

\* A retry is due after the updater refused the first attempt, and the delay
\* was changed since the manager was set up.
C3_Witness ==
    /\ mState = kStateChangeRequested
    /\ updater.lastCall = "RequestUpdate"
    /\ ~updater.lastAccepted
    /\ mTimer.running
    /\ mTimer.fireTime <= now
    /\ accepted = kMinimumDelay + 1
    /\ requested = 13
    /\ UpdateIssued(kErrorNone)[1].b = 121000

\* ------------------------------------------------------------ C4

\* The RequestUpdate calls in the log of w.
UpdateRequests(w) == CallIndices(w, {"Updater.RequestUpdate"})

\* C4: when the timer fires in ChangeRequested, RequestUpdate is called
\* exactly once and its result decides the outcome: success gives
\* ChangeInProgress; Busy or NoBufs leaves ChangeRequested with the target
\* channel unchanged and the timer re-armed for
\* kPendingDatasetTxRetryInterval; InvalidState or any other result gives
\* Idle with the auto-select timer started if auto-selection is enabled and
\* stopped otherwise.
C4_TimerFireInChangeRequested ==
    (mState = kStateChangeRequested /\ mTimer.running /\ mTimer.fireTime <= now) =>
        \A e \in UpdateEnvs :
            LET w == HandleTimer(TimerFired(World), e)
                r == w.calls[CHOOSE i \in UpdateRequests(w) : TRUE].r
            IN  /\ Cardinality(UpdateRequests(w)) = 1
                /\ r = UpdaterAnswer(World, e)
                /\ r = kErrorNone => w.mState = kStateChangeInProgress
                /\ r \in {kErrorBusy, kErrorNoBufs} =>
                      /\ w.mState = kStateChangeRequested
                      /\ w.mChannel = mChannel
                      /\ ArmedNow(w, {kPendingDatasetTxRetryInterval})
                /\ r \notin {kErrorNone, kErrorBusy, kErrorNoBufs} =>
                      /\ w.mState = kStateIdle
                      /\ AutoTimer(w)

\* The updater has just refused the update and the retry timer is armed.
C4_Witness ==
    /\ mState = kStateChangeRequested
    /\ updater.lastCall = "RequestUpdate"
    /\ ~updater.lastAccepted
    /\ ~updater.pending
    /\ mTimer.running
    /\ mTimer.startTime = now
    /\ mTimer.fireTime = now + kPendingDatasetTxRetryInterval

\* ------------------------------------------------------------ C5

\* C5: in every reachable state, ChangeInProgress implies that the most
\* recent call made to the dataset updater was a RequestUpdate that returned
\* success, and that the update it accepted is still outstanding: not
\* cancelled, its completion callback not yet delivered.
C5_InProgressHasOutstandingUpdate ==
    mState = kStateChangeInProgress =>
        /\ updater.lastCall = "RequestUpdate"
        /\ updater.lastAccepted
        /\ updater.pending

\* A change is in progress while the callback of an earlier, cancelled
\* update may still arrive.
C5_Witness ==
    /\ mState = kStateChangeInProgress
    /\ updater.pending
    /\ updater.cancelled

\* ------------------------------------------------------------ C6

\* C6: if RequestChannelChange(c') cancelled an update in flight (the state
\* is ChangeRequested with target c') and the callback of the cancelled
\* update arrives before the jitter timer fires, the target stays c' and the
\* request stays driven by its timer: the state is still ChangeRequested and
\* the jitter timer still armed, so that its fire issues the update for c'.
C6_LateCallbackKeepsRequest ==
    [][(/\ mState = kStateChangeRequested
        /\ updater.lastCall = "CancelUpdate"
        /\ updater.cancelled
        /\ ~updater'.cancelled)
       => (/\ mChannel' = mChannel
           /\ mState' = kStateChangeRequested
           /\ mTimer' = mTimer)]_vars

\* ------------------------------------------------------------ C7

\* The worlds in which a completion callback can run from the current state.
CallbackWorlds ==
    (IF updater.pending THEN {UpdateCompleted(World)} ELSE {})
    \cup (IF updater.cancelled THEN {CancelledUpdateCompleted(World)} ELSE {})

\* C7: when the completion callback fires in ChangeInProgress, for every
\* result the state becomes Idle, the target channel is not modified, the
\* updater is not called, and the timer is started for the auto-select
\* interval if auto-selection is enabled and stopped otherwise.
C7_CallbackReturnsToIdle ==
    mState = kStateChangeInProgress =>
        \A w0 \in CallbackWorlds, err \in CallbackResults :
            LET w == HandleDatasetUpdateDone(w0, PlainEnv, err) IN
            /\ w.mState = kStateIdle
            /\ w.mChannel = mChannel
            /\ UpdaterCalls(w) = {}
            /\ Signals(w) = {}
            /\ AutoTimer(w)

\* The update has just completed with auto-selection enabled: the manager is
\* idle and the auto-select timer armed.
C7_Witness ==
    /\ mState = kStateIdle
    /\ updater.lastCall = "RequestUpdate"
    /\ updater.lastAccepted
    /\ ~updater.pending
    /\ mAutoSelectEnabled
    /\ mTimer.running
    /\ mTimer.startTime = now
    /\ mTimer.fireTime = now + SecToMsec(mAutoSelectInterval)

\* ------------------------------------------------------------ C8

\* The calls in the log of w that belong to a channel selection or start a
\* channel change.
SelectionCalls(w) ==
    CallIndices(w, {"Mle.IsDisabled", "Mac.GetCcaFailureRate",
                    "Monitor.GetSampleCount", "RequestChannelChange"})

\* C8: SetAutoChannelSelectionEnabled(false) while auto-selection is enabled:
\* in Idle the timer is stopped and the state stays Idle; in any other state
\* the state, the target channel and the timer are left untouched and the
\* updater is neither called nor cancelled. In no state does disabling run
\* the selection policy or start a channel change.
C8_DisableNeverSelects ==
    mAutoSelectEnabled =>
        \A e \in SelectEnvs :
            LET w == SetAutoChannelSelectionEnabled(World, e, FALSE) IN
            /\ ~w.mAutoSelectEnabled
            /\ mState = kStateIdle => (w.mState = kStateIdle /\ ~w.mTimer.running)
            /\ mState # kStateIdle => (StateKept(w) /\ NoEffect(w))
            /\ UpdaterCalls(w) = {}
            /\ SelectionCalls(w) = {}

\* ------------------------------------------------------------ C9

\* C9: SetAutoChannelSelectionEnabled(true) in Idle while auto-selection is
\* disabled makes exactly one selection attempt, with the quality check
\* applied, as a timer fire from Idle would; afterwards either the state is
\* Idle with the timer armed for the auto-select interval, or the selection
\* issued a request and the state is ChangeRequested with the timer armed
\* for the jitter delay (the auto interval does not replace it). A call with
\* the value already stored changes nothing.
C9_EnableSelectsOnce ==
    \A e \in SelectEnvs :
        /\ (~mAutoSelectEnabled /\ mState = kStateIdle) =>
              LET w == SetAutoChannelSelectionEnabled(World, e, TRUE) IN
              /\ w.mAutoSelectEnabled
              /\ Cardinality(CallIndices(w, {"Mle.IsDisabled"})) = 1
              /\ ~e.mleDisabled =>
                    Cardinality(CallIndices(w, {"Mac.GetCcaFailureRate"})) = 1
              /\ e.ccaFailureRate < kCcaFailureRateThreshold =>
                    CallIndices(w, {"Monitor.GetSampleCount", "RequestChannelChange"}) = {}
              /\ w = HandleTimer([World EXCEPT !.mAutoSelectEnabled = TRUE], e)
              /\ \/ /\ w.mState = kStateIdle
                    /\ Signals(w) = {}
                    /\ Cardinality(TimerCalls(w)) = 1
                    /\ w.mTimer.running
                    /\ w.mTimer.startTime = now
                    /\ w.mTimer.fireTime = now + SecToMsec(mAutoSelectInterval)
                 \/ /\ w.mState = kStateChangeRequested
                    /\ Cardinality(Signals(w)) = 1
                    /\ Cardinality(TimerCalls(w)) = 1
                    /\ \A i \in TimerCalls(w) :
                          /\ w.calls[i].call = "Timer.Start"
                          /\ w.calls[i].a = 1 + GetUint32InRange(0, kRequestStartJitterInterval, e.jitter)
                          /\ w.mTimer.fireTime = now + w.calls[i].a
                    /\ ArmedNow(w, JitterDelays)
        /\ \A b \in {mAutoSelectEnabled} :
              LET w == SetAutoChannelSelectionEnabled(World, e, b) IN
              /\ w = World

\* Auto-selection is disabled, the manager idle, and there is a selection
\* that finds a better channel and one that does not: enabling requests a
\* change with the one and arms the auto-select timer with the other.
C9_Witness ==
    /\ ~mAutoSelectEnabled
    /\ mState = kStateIdle
    /\ now > 0
    /\ \E e \in SelectEnvs :
          /\ e.jitter = 999
          /\ SetAutoChannelSelectionEnabled(World, e, TRUE).mState = kStateChangeRequested
    /\ \E e \in SelectEnvs :
          /\ ~e.mleDisabled
          /\ e.ccaFailureRate < kCcaFailureRateThreshold
          /\ SetAutoChannelSelectionEnabled(World, e, TRUE).mState = kStateIdle

\* ------------------------------------------------------------ C10

\* A world without the log and the result of the handler that made it.
Settled(w) == [w EXCEPT !.calls = <<>>, !.error = kErrorNone]

\* SetAutoChannelSelectionInterval re-arms the timer from the current state
\* when called with aInterval.
ReArms(aInterval) ==
    /\ mAutoSelectEnabled
    /\ mState = kStateIdle
    /\ mTimer.running
    /\ aInterval # mAutoSelectInterval

\* C10: an accepted SetAutoChannelSelectionInterval(x) re-arms the timer if
\* and only if auto-selection is enabled, the state is Idle, the timer is
\* running and x differs from the stored interval; the new fire time is then
\* old_start + x * 1000, where old_start = old fire time - old interval *
\* 1000 is the time the auto-select timer was started (not now + x * 1000).
\* A second call with the same x leaves the state of the first, and in
\* every other situation the timer is unchanged.
C10_IntervalKeepsStartTime ==
    \A x \in IntervalInputs :
        LET w == SetAutoChannelSelectionInterval(World, x) IN
        w.error = kErrorNone =>
            /\ w.mAutoSelectInterval = x
            /\ (TimerCalls(w) # {}) <=> ReArms(x)
            /\ ReArms(x) =>
                  /\ mTimer.startTime = mTimer.fireTime - mAutoSelectInterval * 1000
                  /\ w.mTimer.running
                  /\ w.mTimer.fireTime = mTimer.startTime + x * 1000
                  /\ w.mTimer.startTime = mTimer.startTime
            /\ ~ReArms(x) => w.mTimer = mTimer
            /\ w.mState = mState
            /\ Settled(SetAutoChannelSelectionInterval(Settled(w), x)) = Settled(w)
            /\ TimerCalls(SetAutoChannelSelectionInterval(Settled(w), x)) = {}

\* The auto-select timer has been running for a while and the interval is
\* changed: the new fire time is not the interval from now.
C10_Witness ==
    /\ now > mTimer.startTime
    /\ \E x \in IntervalInputs :
          /\ ReArms(x)
          /\ SetAutoChannelSelectionInterval(World, x).error = kErrorNone
          /\ SetAutoChannelSelectionInterval(World, x).mTimer.fireTime # now + x * 1000
          /\ SetAutoChannelSelectionInterval(World, x).mTimer.fireTime > now

\* ------------------------------------------------------------ C11

\* The interval is within what SetAutoChannelSelectionInterval accepts.
IntervalInRange(aInterval) == 1 <= aInterval /\ aInterval <= MsecToSec(kMaxDelay)

\* C11: SetDelay(s) returns InvalidArgs exactly when s < kMinimumDelay and
\* SetAutoChannelSelectionInterval(x) returns InvalidArgs exactly when x is
\* outside [1, MsecToSec(kMaxDelay)]; a rejected call leaves the stored
\* delay, the stored interval, the state and the timer (everything) as they
\* were and an accepted one stores its argument, so in every reachable state
\* the stored delay is at least kMinimumDelay and the stored interval is
\* within [1, MsecToSec(kMaxDelay)].
C11_SettersValidate ==
    /\ \A d \in DelayInputs :
          LET w == SetDelay(World, d) IN
          /\ w.error \in {kErrorNone, kErrorInvalidArgs}
          /\ (w.error = kErrorInvalidArgs) <=> (d < kMinimumDelay)
          /\ w.error = kErrorInvalidArgs => (Settled(w) = World /\ w.calls = <<>>)
          /\ w.error = kErrorNone => w.mDelay = d
    /\ \A x \in IntervalInputs :
          LET w == SetAutoChannelSelectionInterval(World, x) IN
          /\ w.error \in {kErrorNone, kErrorInvalidArgs}
          /\ (w.error = kErrorInvalidArgs) <=> ~IntervalInRange(x)
          /\ w.error = kErrorInvalidArgs => (Settled(w) = World /\ w.calls = <<>>)
          /\ w.error = kErrorNone => w.mAutoSelectInterval = x
    /\ mDelay >= kMinimumDelay
    /\ IntervalInRange(mAutoSelectInterval)

\* Both setters have stored a value other than the one of the constructor, a
\* change is requested with its timer armed, and each setter has an argument
\* it rejects.
C11_Witness ==
    /\ mDelay = kMinimumDelay + 1
    /\ accepted = mDelay
    /\ mAutoSelectInterval # kDefaultAutoSelectInterval
    /\ mState = kStateChangeRequested
    /\ mTimer.running
    /\ \E d \in DelayInputs : SetDelay(World, d).error = kErrorInvalidArgs
    /\ \E x \in IntervalInputs :
          /\ x > mAutoSelectInterval
          /\ SetAutoChannelSelectionInterval(World, x).error = kErrorInvalidArgs

\* ------------------------------------------------------------ C12

\* The channels of aMask no channel of aMask is less occupied than.
LeastOccupied(aMask, aOcc) ==
    {c \in aMask : \A d \in aMask : aOcc[c] <= aOcc[d]}

\* The tie set the selection policy chooses its candidate from, and the
\* occupancy of its members: the least occupied favored and supported
\* channels, unless there is none or the least occupied supported channels
\* are better by more than kThresholdToSkipFavored; then those.
PolicyChoice(aSupported, aFavored, aOcc) ==
    LET favored == LeastOccupied(aFavored \cap aSupported, aOcc)
        overall == LeastOccupied(aSupported, aOcc)
        useOverall ==
            \/ favored = {}
            \/ \E f \in favored, o \in overall :
                  /\ aOcc[f] >= kThresholdToSkipFavored
                  /\ aOcc[o] < aOcc[f] - kThresholdToSkipFavored
    IN  IF useOverall THEN overall ELSE favored

\* The selection e reads stops before the policy (mesh layer disabled, or
\* the quality check applied and the CCA failure rate below the threshold).
GatedOff(e, aSkipQualityCheck) ==
    \/ e.mleDisabled
    \/ ~aSkipQualityCheck /\ e.ccaFailureRate < kCcaFailureRateThreshold

\* C12: RequestChannelSelect(skip) returns InvalidState when the mesh layer
\* is disabled, before it reads anything else and whatever skip is; returns
\* success without consulting the channel monitor when skip is false and the
\* CCA failure rate is below kCcaFailureRateThreshold; returns InvalidState
\* when the monitor's sample count is at most kMinChannelMonitorSampleCount;
\* returns NotFound when the tie set the policy chooses from is empty. In
\* each of these four outcomes the state, the target channel and the timer
\* are unchanged and neither the timer, the notifier nor the updater is
\* called.
C12_SelectFailsWithoutEffect ==
    \A e \in SelectEnvs, skip \in BOOLEAN :
        LET w == RequestChannelSelect(World, e, skip)
            monitor == CallIndices(w, {"Monitor.GetSampleCount"})
            tooFew == e.sampleCount <= kMinChannelMonitorSampleCount
            empty == PolicyChoice(mSupportedChannelMask, mFavoredChannelMask, e.occ) = {}
        IN  /\ e.mleDisabled =>
                  /\ w.error = kErrorInvalidState
                  /\ Len(w.calls) = 1
                  /\ w.calls[1].call = "Mle.IsDisabled"
            /\ (~e.mleDisabled /\ GatedOff(e, skip)) =>
                  /\ w.error = kErrorNone
                  /\ monitor = {}
            /\ (~GatedOff(e, skip) /\ tooFew) => w.error = kErrorInvalidState
            /\ (~GatedOff(e, skip) /\ ~tooFew /\ empty) => w.error = kErrorNotFound
            /\ (GatedOff(e, skip) \/ tooFew \/ empty) =>
                  /\ StateKept(w)
                  /\ NoEffect(w)
                  /\ CallIndices(w, {"RequestChannelChange"}) = {}
                  /\ Settled(w) = World

\* A change is requested with its timer armed and no channel is supported:
\* from here a selection meets each of the four outcomes, depending on what
\* it reads.
C12_Witness ==
    /\ mState = kStateChangeRequested
    /\ mTimer.running
    /\ mSupportedChannelMask = {}
    /\ \E e \in SelectEnvs :
          /\ e.mleDisabled
          /\ RequestChannelSelect(World, e, TRUE).error = kErrorInvalidState
    /\ \E e \in SelectEnvs :
          /\ ~e.mleDisabled
          /\ RequestChannelSelect(World, e, FALSE).error = kErrorNone
          /\ RequestChannelSelect(World, e, TRUE).error = kErrorNotFound
    /\ \E e \in SelectEnvs :
          /\ ~e.mleDisabled
          /\ e.sampleCount <= kMinChannelMonitorSampleCount
          /\ RequestChannelSelect(World, e, FALSE).error = kErrorInvalidState

\* ------------------------------------------------------------ the selection policy on its own

\* Masks passed to SetSupportedChannels and SetFavoredChannels: every set of
\* the radio's channels, and of channel 14, which the radio does not have.
PolicyMaskInputs == SUBSET {11, 12, 13, 14}

\* Occupancies the channel monitor reports: around kThresholdToChangeChannel
\* and kThresholdToSkipFavored, and the two ends of the 16-bit range.
PolicyOccupancies == {0, 255, 256, 768, 65535}

\* The selections whose policy runs (mesh layer enabled, CCA failure rate at
\* the threshold, enough samples), for every occupancy table and every
\* random choice among up to three tied channels.
PolicySelections ==
    {Selection(FALSE, kCcaFailureRateThreshold, kMinChannelMonitorSampleCount + 1, occ, r) :
        occ \in [Channels -> PolicyOccupancies], r \in 0 .. 2}

PolicyEnvs == {Env(p, sel, 499, kErrorNone) : p \in PanInputs, sel \in PolicySelections}

PolicySetSupportedChannels ==
    \E m \in PolicyMaskInputs :
        Commit(SetSupportedChannels(World, m), "SetSupportedChannels", 0)

PolicySetFavoredChannels ==
    \E m \in PolicyMaskInputs :
        Commit(SetFavoredChannels(World, m), "SetFavoredChannels", 0)

PolicySetAutoChannelSelectionEnabled ==
    \E b \in BOOLEAN, e \in PolicyEnvs :
        Commit(SetAutoChannelSelectionEnabled(World, e, b),
               "SetAutoChannelSelectionEnabled", IF b THEN 1 ELSE 0)

PolicyRequestChannelSelect ==
    \E skip \in BOOLEAN, e \in PolicyEnvs :
        Commit(RequestChannelSelect(World, e, skip),
               "RequestChannelSelect", IF skip THEN 1 ELSE 0)

PolicyNext ==
    \/ PolicySetSupportedChannels
    \/ PolicySetFavoredChannels
    \/ PolicySetAutoChannelSelectionEnabled
    \/ PolicyRequestChannelSelect

SpecPolicy == Init /\ [][PolicyNext]_vars

\* ------------------------------------------------------------ C13

\* The environment e at the time the running timer fires.
AtFireTime(e) == [e EXCEPT !.now = mTimer.fireTime]

\* Every channel the handler that left w asked RequestChannelChange for is
\* a supported one, and if a request was scheduled the target channel is.
WithinSupported(w) ==
    /\ w.mSupportedChannelMask = mSupportedChannelMask
    /\ \A i \in CallIndices(w, {"RequestChannelChange"}) :
          w.calls[i].a \in mSupportedChannelMask
    /\ ScheduledRequests(w.calls) # {} =>
          /\ w.mState = kStateChangeRequested
          /\ w.mChannel \in mSupportedChannelMask

\* C13: for every supported mask, favored mask and occupancy table, a
\* channel FindBetterChannel finds is a member of the supported mask at the
\* time of the selection; so every RequestChannelChange issued by
\* RequestChannelSelect, or by the auto-select timer firing in Idle, sets
\* the target channel to a member of the supported mask.
C13_SelectionWithinSupported ==
    \A e \in PolicyEnvs :
        /\ LET found == FindBetterChannel(World, e) IN
           found.world.error = kErrorNone =>
               found.newChannel \in mSupportedChannelMask
        /\ \A skip \in BOOLEAN :
               WithinSupported(RequestChannelSelect(World, e, skip))
        /\ (mState = kStateIdle /\ mTimer.running) =>
               WithinSupported(HandleTimer(TimerFired(World), AtFireTime(e)))

\* A selection has requested a change to a supported channel while a
\* favored channel is not supported, and another selection from here
\* requests another channel.
C13_Witness ==
    /\ mState = kStateChangeRequested
    /\ mChannel = requested
    /\ mChannel \in mSupportedChannelMask
    /\ mSupportedChannelMask # MacSupportedChannelMask
    /\ mFavoredChannelMask \ mSupportedChannelMask # {}
    /\ \E e \in PolicyEnvs :
          LET w == RequestChannelSelect(World, e, TRUE) IN
          /\ ScheduledRequests(w.calls) # {}
          /\ w.mChannel # mChannel

\* ------------------------------------------------------------ C14

\* The occupancy improvement is enough to change from a channel of
\* occupancy aCurrent to one of occupancy aCandidate.
WorthChanging(aCurrent, aCandidate) ==
    /\ aCandidate < aCurrent
    /\ aCurrent - aCandidate >= kThresholdToChangeChannel

\* C14: when the policy finds a candidate, RequestChannelSelect issues
\* RequestChannelChange(candidate), once, exactly when the candidate is not
\* the current (PAN) channel, its occupancy is below the current channel's
\* and the difference is at least kThresholdToChangeChannel; a candidate
\* that is not less occupied never leads to a change, whatever the 16-bit
\* difference of the two occupancies wraps around to. The occupancies range
\* over the 16-bit values.
C14_ChangeOnlyWhenWorthIt ==
    \A e \in PolicyEnvs, skip \in BOOLEAN :
        LET found == FindBetterChannel(World, e)
            w == RequestChannelSelect(World, e, skip)
            issued == CallIndices(w, {"RequestChannelChange"})
            curOccupancy == e.occ[e.pan]
        IN  /\ curOccupancy \in 0 .. kMaxOccupancy
            /\ found.world.error # kErrorNone => issued = {}
            /\ found.world.error = kErrorNone =>
                  /\ found.newOccupancy \in 0 .. kMaxOccupancy
                  /\ found.newOccupancy = e.occ[found.newChannel]
                  /\ (issued # {}) <=>
                        /\ found.newChannel # e.pan
                        /\ WorthChanging(curOccupancy, found.newOccupancy)
                  /\ found.newOccupancy >= curOccupancy => issued = {}
                  /\ issued # {} =>
                        /\ Cardinality(issued) = 1
                        /\ \A i \in issued : w.calls[i].a = found.newChannel

\* A selection has requested a change; from here one selection finds a
\* candidate more occupied than the current channel, whose 16-bit difference
\* wraps around to more than the threshold, and requests nothing; another
\* finds one better by exactly the threshold and requests it; a third finds
\* one better by one less than the threshold and requests nothing.
C14_Witness ==
    /\ mState = kStateChangeRequested
    /\ mChannel = requested
    /\ \E e \in PolicyEnvs :
          LET found == FindBetterChannel(World, e) IN
          /\ found.world.error = kErrorNone
          /\ found.newChannel # e.pan
          /\ found.newOccupancy > e.occ[e.pan]
          /\ Sub16(e.occ[e.pan], found.newOccupancy) >= kThresholdToChangeChannel
          /\ CallIndices(RequestChannelSelect(World, e, TRUE), {"RequestChannelChange"}) = {}
    /\ \E e \in PolicyEnvs :
          LET found == FindBetterChannel(World, e) IN
          /\ found.world.error = kErrorNone
          /\ e.occ[e.pan] - found.newOccupancy = kThresholdToChangeChannel
          /\ ScheduledRequests(RequestChannelSelect(World, e, TRUE).calls) # {}
    /\ \E e \in PolicyEnvs :
          LET found == FindBetterChannel(World, e) IN
          /\ found.world.error = kErrorNone
          /\ found.newChannel # e.pan
          /\ e.occ[e.pan] - found.newOccupancy = kThresholdToChangeChannel - 1
          /\ CallIndices(RequestChannelSelect(World, e, TRUE), {"RequestChannelChange"}) = {}

\* ------------------------------------------------------------ C15

TimerDue == mTimer.running /\ mTimer.fireTime <= now

\* C16: when the timer fires in Idle, the selection is run once, with the
\* quality check applied (below the CCA threshold neither the channel
\* monitor nor RequestChannelChange is reached). If it issues no request
\* the state stays Idle, the target channel is kept, neither the updater
\* nor the notifier is called and the timer is re-armed, from now, for the
\* auto-select interval; if it issues one the state is ChangeRequested and
\* the only timer call of the handler is the start of the jitter timer,
\* which is the one left armed.
C16_AutoSelectTick ==
    (mState = kStateIdle /\ TimerDue) =>
        \A e \in SelectEnvs :
            LET w == HandleTimer(TimerFired(World), e)
                issued == CallIndices(w, {"RequestChannelChange"})
            IN  /\ Cardinality(CallIndices(w, {"Mle.IsDisabled"})) = 1
                /\ ~e.mleDisabled =>
                      Cardinality(CallIndices(w, {"Mac.GetCcaFailureRate"})) = 1
                /\ GatedOff(e, FALSE) =>
                      CallIndices(w, {"Monitor.GetSampleCount", "RequestChannelChange"}) = {}
                /\ UpdaterCalls(w) = {}
                /\ w.updater = updater
                /\ Cardinality(TimerCalls(w)) = 1
                /\ issued = {} =>
                      /\ w.mState = kStateIdle
                      /\ w.mChannel = mChannel
                      /\ Signals(w) = {}
                      /\ ArmedNow(w, {SecToMsec(mAutoSelectInterval)})
                /\ issued # {} =>
                      /\ Cardinality(issued) = 1
                      /\ w.mState = kStateChangeRequested
                      /\ \A i \in issued : w.mChannel = w.calls[i].a
                      /\ \A i \in TimerCalls(w) :
                            /\ w.calls[i].call = "Timer.Start"
                            /\ w.calls[i].a = 1 + GetUint32InRange(0, kRequestStartJitterInterval, e.jitter)
                            /\ w.mTimer.fireTime = now + w.calls[i].a
                      /\ ArmedNow(w, JitterDelays)

\* The auto-select timer is due in Idle, some time after it was started, and
\* there is a selection that requests a change, one that is gated off by
\* the CCA failure rate and one that finds too little to gain.
C16_Witness ==
    /\ mState = kStateIdle
    /\ TimerDue
    /\ now > 0
    /\ mTimer.fireTime - mTimer.startTime = SecToMsec(mAutoSelectInterval)
    /\ \E e \in SelectEnvs :
          HandleTimer(TimerFired(World), e).mState = kStateChangeRequested
    /\ \E e \in SelectEnvs :
          /\ ~e.mleDisabled
          /\ e.ccaFailureRate < kCcaFailureRateThreshold
          /\ HandleTimer(TimerFired(World), e).mState = kStateIdle
    /\ \E e \in SelectEnvs :
          /\ ~GatedOff(e, FALSE)
          /\ FindBetterChannel(World, e).world.error = kErrorNone
          /\ HandleTimer(TimerFired(World), e).mState = kStateIdle

\* ------------------------------------------------------------ C17

\* The RequestChannelChange calls in the log of w, made from the current
\* state with the PAN channel of e, that schedule a change: the channel is
\* neither the PAN channel nor the target of a change in progress.
SchedulingRequests(w, e) ==
    {i \in CallIndices(w, {"RequestChannelChange"}) :
        /\ w.calls[i].a # e.pan
        /\ ~(mState = kStateChangeInProgress /\ w.calls[i].a = mChannel)}

\* The handler that left w signalled the notifier once for each request it
\* scheduled and not otherwise; each signal comes right after the start of
\* the jitter timer, as the last call of the handler, which leaves the state
\* ChangeRequested with that timer armed and has not called RequestUpdate.
SignalsFollowRequests(w, e) ==
    /\ Cardinality(Signals(w)) = Cardinality(SchedulingRequests(w, e))
    /\ Cardinality(Signals(w)) <= 1
    /\ \A k \in Signals(w) :
          /\ k = Len(w.calls)
          /\ k > 1
          /\ w.calls[k - 1].call = "Timer.Start"
          /\ w.calls[k - 1].a \in JitterDelays
          /\ \E i \in SchedulingRequests(w, e) : i < k /\ w.mChannel = w.calls[i].a
          /\ w.mState = kStateChangeRequested
          /\ ArmedNow(w, JitterDelays)
          /\ UpdateRequests(w) = {}

\* The handler that left w neither signalled the notifier nor asked for a
\* channel change.
NoSignal(w) ==
    /\ Signals(w) = {}
    /\ CallIndices(w, {"RequestChannelChange"}) = {}

\* C17: the notifier is signalled exactly once by each RequestChannelChange
\* call that sets the state to ChangeRequested and arms the jitter timer
\* (made by the host or from within a selection), and by no other operation
\* or callback; the signal is emitted within that call, so that it has been
\* emitted for the target channel whenever a timer fire issues the
\* RequestUpdate for it.
C17_SignalOncePerRequest ==
    /\ \A c \in Channels, e \in RequestEnvs :
          LET w == RequestChannelChange(World, e, c) IN
          /\ SignalsFollowRequests(w, e)
          /\ Signals(w) = {} => (StateKept(w) /\ NoEffect(w))
    /\ \A e \in SelectEnvs, b \in BOOLEAN :
          /\ SignalsFollowRequests(RequestChannelSelect(World, e, b), e)
          /\ SignalsFollowRequests(SetAutoChannelSelectionEnabled(World, e, b), e)
    /\ TimerDue =>
          \A e \in TimerEnvs :
              LET w == HandleTimer(TimerFired(World), e) IN
              /\ SignalsFollowRequests(w, e)
              /\ UpdateRequests(w) # {} =>
                    /\ Signals(w) = {}
                    /\ \A i \in UpdateRequests(w) : w.calls[i].a = requested
    /\ \A w0 \in CallbackWorlds, err \in CallbackResults :
          NoSignal(HandleDatasetUpdateDone(w0, PlainEnv, err))
    /\ \A d \in DelayInputs : NoSignal(SetDelay(World, d))
    /\ \A x \in IntervalInputs : NoSignal(SetAutoChannelSelectionInterval(World, x))
    /\ \A m \in SupportedMaskInputs : NoSignal(SetSupportedChannels(World, m))
    /\ \A m \in FavoredMaskInputs : NoSignal(SetFavoredChannels(World, m))

\* A change that was requested and signalled is in progress: from here a
\* request for another channel signals once, and a request for the same
\* channel, or for the PAN channel, does not signal.
C17_Witness ==
    /\ mState = kStateChangeInProgress
    /\ updater.pending
    /\ requested = mChannel
    /\ \E c \in Channels, e \in RequestEnvs :
          /\ c # mChannel
          /\ Cardinality(Signals(RequestChannelChange(World, e, c))) = 1
    /\ \E c \in Channels, e \in RequestEnvs :
          /\ c = mChannel
          /\ c # e.pan
          /\ Signals(RequestChannelChange(World, e, c)) = {}
    /\ \E c \in Channels, e \in RequestEnvs :
          /\ c # mChannel
          /\ c = e.pan
          /\ Signals(RequestChannelChange(World, e, c)) = {}

\* ------------------------------------------------------------ C18

\* C18: in every reachable state (between operations, timer fires and
\* updater callbacks, a callback arriving outside ChangeInProgress
\* included), Idle with auto-selection enabled implies that the timer is
\* running.
C18_IdleAutoHasTimer ==
    (mState = kStateIdle /\ mAutoSelectEnabled) => mTimer.running

\* The callback of a cancelled update has arrived with auto-selection
\* enabled: the manager is idle with the auto-select timer just armed.
C18_Witness ==
    /\ mState = kStateIdle
    /\ mAutoSelectEnabled
    /\ updater.lastCall = "CancelUpdate"
    /\ ~updater.cancelled
    /\ ~updater.pending
    /\ mTimer.running
    /\ mTimer.startTime = now
    /\ now > 0

\* ------------------------------------------------------------ C19

\* The delay the running timer was armed with.
ArmedFor == mTimer.fireTime - mTimer.startTime

\* C19: the state determines the role of the timer in every reachable
\* state: in ChangeRequested the timer is running, armed for the jitter or
\* for the retry interval; in ChangeInProgress it is not running; in Idle a
\* running timer implies that auto-selection is enabled and that the timer
\* was armed with the auto-select interval, and auto-selection disabled
\* implies that the timer is stopped.
C19_TimerRoleFollowsState ==
    /\ mState \in States
    /\ mState = kStateChangeRequested =>
          /\ mTimer.running
          /\ ArmedFor \in JitterDelays \cup {kPendingDatasetTxRetryInterval}
    /\ mState = kStateChangeInProgress => ~mTimer.running
    /\ (mState = kStateIdle /\ mTimer.running) =>
          /\ mAutoSelectEnabled
          /\ ArmedFor = SecToMsec(mAutoSelectInterval)
    /\ (mState = kStateIdle /\ ~mAutoSelectEnabled) => ~mTimer.running

\* Auto-selection is enabled and its interval was changed while its timer
\* ran; now a change is requested and the timer is armed for a retry, not
\* for the auto-select interval.
C19_Witness ==
    /\ mState = kStateChangeRequested
    /\ mAutoSelectEnabled
    /\ mAutoSelectInterval # kDefaultAutoSelectInterval
    /\ mTimer.running
    /\ ArmedFor = kPendingDatasetTxRetryInterval
    /\ ArmedFor # SecToMsec(mAutoSelectInterval)
    /\ updater.lastCall = "RequestUpdate"
    /\ ~updater.lastAccepted

\* ------------------------------------------------------------ progress

\* The answers of the updater other than Busy and NoBufs.
SettlingUpdateEnvs == {e \in UpdateEnvs : e.result \notin {kErrorBusy, kErrorNoBufs}}

\* The host calls the operations that request a change or run a selection
\* (and SetSupportedChannels, for a selection to find a channel) until
\* MaxTime, and none afterwards.
ProgressHostCalls ==
    /\ now <= MaxTime
    /\ \/ CallRequestChannelChange
       \/ CallSetSupportedChannels
       \/ CallSetAutoChannelSelectionEnabled
       \/ CallRequestChannelSelect

\* The timer is due and its handler runs. The updater answers Busy or
\* NoBufs until MaxTime at the latest.
ProgressTimerFires ==
    /\ mTimer.running
    /\ mTimer.fireTime <= now
    /\ \E e \in (IF mState = kStateChangeRequested /\ now > MaxTime
                 THEN SettlingUpdateEnvs ELSE TimerEnvs) :
          Commit(HandleTimer(TimerFired(World), e), "HandleTimer", 0)

\* Time passes, up to the fire time of a running timer; past MaxTime only
\* as far as the timer of a requested change needs, and not while the
\* callback of an accepted update is outstanding (it is delivered first).
ProgressTick ==
    \E d \in TickSteps :
        /\ now + d <= MaxTime \/ (mState = kStateChangeRequested /\ ~updater.pending)
        /\ mTimer.running => now + d <= mTimer.fireTime
        /\ now' = now + d
        /\ UNCHANGED <<mState, mChannel, mDelay, mAutoSelectInterval,
                       mAutoSelectEnabled, mSupportedChannelMask,
                       mFavoredChannelMask, mTimer, updater, requested, accepted>>

ProgressNext ==
    \/ ProgressHostCalls
    \/ ProgressTimerFires
    \/ UpdateDone
    \/ LateUpdateDone
    \/ ProgressTick

\* Time passes, a timer that is due fires, and the updater delivers the
\* callback of the update it has accepted.
SpecProgress ==
    /\ Init
    /\ [][ProgressNext]_vars
    /\ WF_vars(ProgressTick)
    /\ WF_vars(ProgressTimerFires)
    /\ WF_vars(UpdateDone)

\* ------------------------------------------------------------ C20

\* C20: once the host calls no further operations, with time passing, due
\* timers firing, the updater not answering Busy or NoBufs for ever and
\* delivering the callback of every update it accepted, the manager returns
\* to Idle from every reachable state: whenever it is in ChangeRequested or
\* ChangeInProgress it is eventually Idle again, whatever the updater
\* answers and whatever result the callback carries.
C20_EventuallyIdle == (mState # kStateIdle) ~> (mState = kStateIdle)

\* The host has gone quiet and the manager is idle again, after the updater
\* refused an update and accepted the retry.
C20_Witness ==
    /\ now > MaxTime
    /\ mState = kStateIdle
    /\ updater.lastCall = "RequestUpdate"
    /\ updater.lastAccepted
    /\ ~updater.pending

====
